---------------------------- MODULE Spec2Model ----------------------------
(***************************************************************************)
(* State-machine model of the three Windows inspection scripts             *)
(*   check_backdoor_users.py, check_suspicious_processes.py and            *)
(*   check_suspicious_startup.py.                                          *)
(* Each script is one linear pass: precondition, enumeration, rule         *)
(* evaluation per record, report.  A Python str is modelled as a sequence   *)
(* of one-character strings so that lower(), startswith(), `in`, count()   *)
(* and the path-extraction regular expression are computed, not assumed.   *)
(***************************************************************************)
EXTENDS Integers, Sequences, FiniteSets

(***************************************************************************)
(* Python str operations                                                   *)
(***************************************************************************)
UpperAlpha == <<"A", "B", "C", "D", "E", "F", "G", "H", "I", "J", "K", "L", "M", "N", "O", "P", "Q", "R", "S", "T", "U", "V", "W", "X", "Y", "Z">>
LowerAlpha == <<"a", "b", "c", "d", "e", "f", "g", "h", "i", "j", "k", "l", "m", "n", "o", "p", "q", "r", "s", "t", "u", "v", "w", "x", "y", "z">>

Range(s) == {s[i] : i \in 1..Len(s)}

IsAlpha(c) == c \in Range(UpperAlpha) \cup Range(LowerAlpha)

\* one character of str.lower()
LowerChar(c) ==
    IF c \in Range(UpperAlpha)
    THEN LowerAlpha[CHOOSE i \in 1..Len(UpperAlpha) : UpperAlpha[i] = c]
    ELSE c

\* str.lower()
Lower(s) == [i \in 1..Len(s) |-> LowerChar(s[i])]

\* one character of str.upper()
UpperChar(c) ==
    IF c \in Range(LowerAlpha)
    THEN UpperAlpha[CHOOSE i \in 1..Len(LowerAlpha) : LowerAlpha[i] = c]
    ELSE c

\* str.upper()
Upper(s) == [i \in 1..Len(s) |-> UpperChar(s[i])]

\* s.startswith(p)
StartsWith(s, p) == Len(p) <= Len(s) /\ \A j \in 1..Len(p) : s[j] = p[j]

\* s.endswith(p)
EndsWith(s, p) == Len(p) <= Len(s) /\ SubSeq(s, Len(s) - Len(p) + 1, Len(s)) = p

\* `sub in s` for two str
Contains(sub, s) ==
    \E k \in 0..(Len(s) - Len(sub)) : \A j \in 1..Len(sub) : s[k + j] = sub[j]

\* s.count(c) for a one-character c
CountChar(s, c) == Cardinality({i \in 1..Len(s) : s[i] = c})

\* s.replace(a, b) for one-character a and b
ReplaceChar(s, a, b) == [i \in 1..Len(s) |-> IF s[i] = a THEN b ELSE s[i]]

\* s.find(c, from) with 1-based positions; 0 when absent (Python's -1)
Find(s, c, from) ==
    LET At == {i \in from..Len(s) : s[i] = c}
    IN  IF At = {} THEN 0 ELSE CHOOSE i \in At : \A j \in At : i <= j

\* s.lstrip(c)
RECURSIVE LStrip(_, _)
LStrip(s, c) == IF s # <<>> /\ Head(s) = c THEN LStrip(Tail(s), c) ELSE s

\* s.split(c): the pieces of s between the occurrences of c
RECURSIVE Split(_, _)
Split(s, c) ==
    LET k == Find(s, c, 1)
    IN  IF k = 0 THEN <<s>>
        ELSE <<SubSeq(s, 1, k - 1)>> \o Split(SubSeq(s, k + 1, Len(s)), c)

\* c.join(parts)
RECURSIVE Join(_, _)
Join(parts, c) ==
    IF parts = <<>> THEN <<>>
    ELSE IF Len(parts) = 1 THEN parts[1]
    ELSE parts[1] \o <<c>> \o Join(Tail(parts), c)

(***************************************************************************)
(* os.path.normpath of the Windows path module (ntpath), which both        *)
(* is_system_process and is_trusted_path call before the prefix test.      *)
(***************************************************************************)
Sep == "\\"
AltSep == "/"
CurDir == <<".">>
ParDir == <<".", ".">>

UncPrefix == <<"\\", "\\", "?", "\\", "U", "N", "C", "\\">>

\* ntpath.splitdrive: <<drive, rest>>
SplitDrive(p) ==
    LET normp == ReplaceChar(p, AltSep, Sep)
        none  == <<<<>>, p>>
        all   == <<p, <<>>>>
    IN  IF Len(p) < 2 THEN none
        ELSE IF normp[1] = Sep /\ normp[2] = Sep
        THEN LET start  == IF Len(normp) >= 8 /\ Upper(SubSeq(normp, 1, 8)) = UncPrefix
                           THEN 9 ELSE 3
                 index  == Find(normp, Sep, start)
                 index2 == IF index = 0 THEN 0 ELSE Find(normp, Sep, index + 1)
             IN  IF index = 0 \/ index2 = 0 THEN all
                 ELSE <<SubSeq(p, 1, index2 - 1), SubSeq(p, index2, Len(p))>>
        ELSE IF normp[2] = ":" THEN <<SubSeq(p, 1, 2), SubSeq(p, 3, Len(p))>>
        ELSE none

\* the component loop of normpath: comps[1..] still to visit, kept the
\* components already retained to their left
RECURSIVE NormComps(_, _, _)
NormComps(comps, kept, rooted) ==
    IF comps = <<>> THEN kept
    ELSE LET c == Head(comps)
             rest == Tail(comps)
         IN  IF c = <<>> \/ c = CurDir THEN NormComps(rest, kept, rooted)
             ELSE IF c = ParDir
             THEN IF kept # <<>> /\ kept[Len(kept)] # ParDir
                  THEN NormComps(rest, SubSeq(kept, 1, Len(kept) - 1), rooted)
                  ELSE IF kept = <<>> /\ rooted
                  THEN NormComps(rest, kept, rooted)
                  ELSE NormComps(rest, Append(kept, c), rooted)
             ELSE NormComps(rest, Append(kept, c), rooted)

NormPath(path) ==
    LET p1     == ReplaceChar(path, AltSep, Sep)
        sd     == SplitDrive(p1)
        rooted == sd[2] # <<>> /\ sd[2][1] = Sep
        prefix == IF rooted THEN Append(sd[1], Sep) ELSE sd[1]
        body   == IF rooted THEN LStrip(sd[2], Sep) ELSE sd[2]
        comps  == NormComps(Split(body, Sep), <<>>, EndsWith(prefix, <<Sep>>))
    IN  IF prefix = <<>> /\ comps = <<>> THEN CurDir
        ELSE prefix \o Join(comps, Sep)

(***************************************************************************)
(* Findings.  Every finding is a record of the same shape: the rule that   *)
(* fired and the data the printed text embeds (a path or name, the matched *)
(* keywords, the instance count).                                          *)
(***************************************************************************)
Finding(kind, text, kws, n) == [kind |-> kind, text |-> text, kws |-> kws, n |-> n]

(***************************************************************************)
(* check_backdoor_users.py                                                 *)
(***************************************************************************)
\* is_hidden_user
is_hidden_user(username) == EndsWith(username, <<"$">>)

builtin == <<<<"A", "d", "m", "i", "n", "i", "s", "t", "r", "a", "t", "o", "r">>, <<"G", "u", "e", "s", "t">>, <<"D", "e", "f", "a", "u", "l", "t", "A", "c", "c", "o", "u", "n", "t">>, <<"W", "D", "A", "G", "U", "t", "i", "l", "i", "t", "y", "A", "c", "c", "o", "u", "n", "t">>>>

\* is_builtin_admin comparing without regard to case
is_builtin_admin_nocase(username) == Lower(username) \in {Lower(b) : b \in Range(builtin)}

\* is_builtin_admin
is_builtin_admin(username) == username \in Range(builtin)

\* What `net user "<name>"` can give is_member_of_administrators: the call
\* raises, or returns text with "Administrators", with the localized group
\* name, or with neither.
NetUserResults == {"raises", "Administrators", "localized", "neither"}

\* is_member_of_administrators, given the outcome of its `net user` call
is_member_of_administrators(result) == result \in {"Administrators", "localized"}

\* check_suspicious_user, given the outcome of the membership query
check_suspicious_user(username, result) ==
    (IF is_hidden_user(username)
     THEN <<Finding("hidden_account", <<>>, <<>>, 0)>> ELSE <<>>)
    \o
    (IF is_member_of_administrators(result) /\ ~is_builtin_admin(username)
     THEN <<Finding("custom_admin", <<>>, <<>>, 0)>> ELSE <<>>)

(***************************************************************************)
(* check_suspicious_processes.py                                           *)
(***************************************************************************)
MALICIOUS_KEYWORDS_proc ==
    << <<"h", "a", "c", "k">>, <<"k", "e", "y", "l", "o", "g">>, <<"s", "p", "y">>, <<"r", "e", "m", "o", "t", "e">>, <<"v", "n", "c">>, <<"r", "a", "t">>, <<"t", "r", "o", "j", "a", "n">>,
       <<"m", "e", "t", "e", "r", "p", "r", "e", "t", "e", "r">>, <<"c", "o", "b", "a", "l", "t">>, <<"s", "h", "e", "l", "l">>, <<"r", "e", "v", "e", "r", "s", "e">>, <<"b", "a", "c", "k", "d", "o", "o", "r">> >>

SYSTEM_PATHS ==
    << <<"C", ":", "\\", "W", "i", "n", "d", "o", "w", "s", "\\", "S", "y", "s", "t", "e", "m", "3", "2">>, <<"C", ":", "\\", "W", "i", "n", "d", "o", "w", "s", "\\", "S", "y", "s", "W", "O", "W", "6", "4">>,
       <<"C", ":", "\\", "W", "i", "n", "d", "o", "w", "s", "\\", "E", "x", "p", "l", "o", "r", "e", "r", ".", "E", "X", "E">>, <<"\\", "?", "?", "\\", "C", ":", "\\", "W", "i", "n", "d", "o", "w", "s", "\\", "S", "y", "s", "t", "e", "m", "3", "2">> >>

\* SUSPICIOUS_NAMES of the process scan, in dict order: <<good name, bad variants>>
SUSPICIOUS_NAMES_proc ==
    << << <<"s", "v", "c", "h", "o", "s", "t", ".", "e", "x", "e">>,  << <<"s", "v", "c", "h", "0", "s", "t", ".", "e", "x", "e">>, <<"s", "c", "v", "h", "o", "s", "t", ".", "e", "x", "e">>, <<"s", "v", "c", "h", "o", "s", "t", "s", ".", "e", "x", "e">> >> >>,
       << <<"l", "s", "a", "s", "s", ".", "e", "x", "e">>,    << <<"l", "s", "a", "s", "s", "s", ".", "e", "x", "e">>, <<"l", "s", "s", "a", "s", ".", "e", "x", "e">> >> >>,
       << <<"w", "i", "n", "l", "o", "g", "o", "n", ".", "e", "x", "e">>, << <<"w", "i", "n", "l", "o", "g", "o", "n", "n", ".", "e", "x", "e">>, <<"w", "i", "n", "l", "o", "g", "i", "n", ".", "e", "x", "e">> >> >>,
       << <<"e", "x", "p", "l", "o", "r", "e", "r", ".", "e", "x", "e">>, << <<"e", "x", "p", "l", "o", "r", "e", "r", "r", ".", "e", "x", "e">>, <<"e", "x", "p", "l", "o", "r", "e", "r", "x", ".", "e", "x", "e">>, <<"e", "x", "p", "l", "o", "r", "e", "r", "_", ".", "e", "x", "e">> >> >>,
       << <<"c", "s", "r", "s", "s", ".", "e", "x", "e">>,    << <<"c", "s", "r", "s", "s", "s", ".", "e", "x", "e">>, <<"c", "s", "r", "s", "s", "1", ".", "e", "x", "e">> >> >>,
       << <<"s", "m", "s", "s", ".", "e", "x", "e">>,     << <<"s", "m", "s", "s", "s", ".", "e", "x", "e">>, <<"s", "m", "s", ".", "e", "x", "e">> >> >> >>

HIGH_RISK_PATHS_proc ==
    << <<"T", "e", "m", "p">>, <<"A", "p", "p", "D", "a", "t", "a", "\\", "L", "o", "c", "a", "l", "\\", "T", "e", "m", "p">>, <<"D", "o", "w", "n", "l", "o", "a", "d", "s">>, <<"D", "e", "s", "k", "t", "o", "p">>,
       <<"\\", "A", "p", "p", "D", "a", "t", "a", "\\", "R", "o", "a", "m", "i", "n", "g", "\\">>, <<"\\", "L", "o", "c", "a", "l", "\\", "P", "r", "o", "g", "r", "a", "m", "s", "\\">>, <<".", "c", "a", "c", "h", "e">> >>

\* the text shown for a process whose executable path is missing
Unknown == <<"U", "n", "k", "n", "o", "w", "n">>

\* is_system_process
is_system_process(proc_path) ==
    IF proc_path = <<>> THEN FALSE
    ELSE LET p == Lower(NormPath(proc_path))
         IN  \E i \in 1..Len(SYSTEM_PATHS) :
                 StartsWith(p, Lower(NormPath(SYSTEM_PATHS[i])))

\* is_suspicious_name of the process scan: one finding per imitated name
is_suspicious_name_proc(process_name) ==
    LET Hit(e) == Lower(process_name) \in {Lower(v) : v \in Range(e[2])}
        hits   == SelectSeq(SUSPICIOUS_NAMES_proc, Hit)
    IN  [i \in 1..Len(hits) |-> Finding("impersonates", hits[i][1], <<>>, 0)]

\* has_malicious_keyword of the process scan
has_malicious_keyword_proc(process_name, proc_path) ==
    LET full_text == Lower(process_name \o <<" ">> \o proc_path)
        Hit(kw)   == Contains(Lower(kw), full_text)
    IN  SelectSeq(MALICIOUS_KEYWORDS_proc, Hit)

\* is_high_risk_path of the process scan
is_high_risk_path_proc(proc_path) ==
    IF proc_path = <<>> THEN FALSE
    ELSE LET p == Lower(proc_path)
         IN  \E i \in 1..Len(HIGH_RISK_PATHS_proc) :
                 Contains(Lower(HIGH_RISK_PATHS_proc[i]), p)

\* get_running_processes: the record built from one psutil entry; a missing
\* executable path (None or '', here <<>>) becomes "Unknown"
ProcRecord(info, pid) ==
    [pid |-> pid, name |-> info.name,
     exe |-> IF info.exe = <<>> THEN Unknown ELSE info.exe]

duplicateThreshold == 3

\* rule 4 of main's loop: a system process name outside the system paths
SystemNameRule(proc) ==
    /\ \/ Lower(proc.name) \in {e[1] : e \in Range(SUSPICIOUS_NAMES_proc)}
       \/ Lower(proc.name) \in {<<"d", "l", "l", "h", "o", "s", "t", ".", "e", "x", "e">>}
    /\ ~is_system_process(proc.exe)

\* DuplicateRule with >= for >
DuplicateRule_ge(proc, name_count) ==
    /\ name_count[proc.name] >= duplicateThreshold
    /\ is_high_risk_path_proc(proc.exe) \/ Contains(<<"p", "y", "t", "h", "o", "n">>, Lower(proc.name))

\* rule 5 of main's loop: many processes of one name
DuplicateRule(proc, name_count) ==
    /\ name_count[proc.name] > duplicateThreshold
    /\ is_high_risk_path_proc(proc.exe) \/ Contains(<<"p", "y", "t", "h", "o", "n">>, Lower(proc.name))

\* the body of main's loop over all_processes: the issues of one record
ProcIssues(proc, name_count) ==
    LET keywords == has_malicious_keyword_proc(proc.name, proc.exe)
    IN  is_suspicious_name_proc(proc.name)
        \o (IF keywords # <<>>
            THEN <<Finding("keyword", <<>>, keywords, 0)>> ELSE <<>>)
        \o (IF is_high_risk_path_proc(proc.exe)
            THEN <<Finding("high_risk_path", proc.exe, <<>>, 0)>> ELSE <<>>)
        \o (IF SystemNameRule(proc)
            THEN <<Finding("system_name_outside_system_path", proc.exe, <<>>, 0)>>
            ELSE <<>>)
        \o (IF DuplicateRule(proc, name_count)
            THEN <<Finding("duplicates", <<>>, <<>>, name_count[proc.name])>>
            ELSE <<>>)

(***************************************************************************)
(* check_suspicious_startup.py                                             *)
(***************************************************************************)
MALICIOUS_KEYWORDS_startup ==
    << <<"h", "a", "c", "k">>, <<"k", "e", "y", "l", "o", "g">>, <<"s", "p", "y">>, <<"r", "e", "m", "o", "t", "e">>, <<"r", "a", "t">>, <<"t", "r", "o", "j", "a", "n">>, <<"b", "a", "c", "k", "d", "o", "o", "r">>,
       <<"s", "h", "e", "l", "l">>, <<"v", "n", "c">>, <<"m", "i", "n", "e", "r">> >>

HIGH_RISK_PATHS_startup ==
    << <<"T", "e", "m", "p">>, <<"A", "p", "p", "D", "a", "t", "a", "\\", "L", "o", "c", "a", "l", "\\", "T", "e", "m", "p">>, <<"A", "p", "p", "D", "a", "t", "a", "\\", "R", "o", "a", "m", "i", "n", "g">>, <<"D", "o", "w", "n", "l", "o", "a", "d", "s">>,
       <<"D", "e", "s", "k", "t", "o", "p">>, <<"\\", "L", "o", "c", "a", "l", "\\", "P", "r", "o", "g", "r", "a", "m", "s", "\\">>, <<".", "c", "a", "c", "h", "e">> >>

TRUSTED_PATHS ==
    << <<"C", ":", "\\", "W", "i", "n", "d", "o", "w", "s">>, <<"C", ":", "\\", "P", "r", "o", "g", "r", "a", "m", " ", "F", "i", "l", "e", "s">>, <<"C", ":", "\\", "P", "r", "o", "g", "r", "a", "m", " ", "F", "i", "l", "e", "s", " ", "(", "x", "8", "6", ")">>, <<"\\", "?", "?", "\\", "C", ":", "\\", "W", "i", "n", "d", "o", "w", "s">> >>

SUSPICIOUS_NAMES_startup ==
    << <<"s", "v", "c", "h", "o", "s", "t">>, <<"e", "x", "p", "l", "o", "r", "e", "r">>, <<"w", "i", "n", "l", "o", "g", "o", "n">>, <<"l", "s", "a", "s", "s">>, <<"c", "s", "r", "s", "s">>, <<"s", "m", "s", "s">> >>

\* is_high_risk_path of the startup scan
is_high_risk_path_startup(path) ==
    IF path = <<>> THEN FALSE
    ELSE LET p == Lower(path)
         IN  \E i \in 1..Len(HIGH_RISK_PATHS_startup) :
                 Contains(Lower(HIGH_RISK_PATHS_startup[i]), p)

\* is_trusted_path
is_trusted_path(path) ==
    IF path = <<>> THEN FALSE
    ELSE LET p == Lower(NormPath(path))
         IN  \E i \in 1..Len(TRUSTED_PATHS) :
                 StartsWith(p, Lower(NormPath(TRUSTED_PATHS[i])))

\* has_malicious_keyword of the startup scan
has_malicious_keyword_startup(text) ==
    LET lowered == Lower(text)
        Hit(kw) == Contains(Lower(kw), lowered)
    IN  SelectSeq(MALICIOUS_KEYWORDS_startup, Hit)

\* is_suspicious_name of the startup scan without the digit/underscore test
is_suspicious_name_stem_only(name) ==
    \E i \in 1..Len(SUSPICIOUS_NAMES_startup) :
        Contains(SUSPICIOUS_NAMES_startup[i], Lower(name))

\* is_suspicious_name of the startup scan testing for any digit
is_suspicious_name_any_digit(name) ==
    LET name_lower == Lower(name)
    IN  \E i \in 1..Len(SUSPICIOUS_NAMES_startup) :
            /\ Contains(SUSPICIOUS_NAMES_startup[i], name_lower)
            /\ \E k \in 1..Len(name_lower) :
                   name_lower[k] \in {"0", "1", "2", "3", "4", "5", "6", "7", "8", "9", "_"}

\* is_suspicious_name of the startup scan
is_suspicious_name_startup(name) ==
    LET name_lower == Lower(name)
    IN  \E i \in 1..Len(SUSPICIOUS_NAMES_startup) :
            /\ Contains(SUSPICIOUS_NAMES_startup[i], name_lower)
            /\ \/ CountChar(name_lower, "0") # 0
               \/ CountChar(name_lower, "1") # 0
               \/ Contains(<<"_">>, name_lower)

(***************************************************************************)
(* re.search(r'(["\']?)([A-Za-z]:\\[^"\']+\.(exe|bat|vbs|ps1|cmd))\1', v)  *)
(***************************************************************************)
Quotes == {"\"", "'"}
Extensions == {<<"e", "x", "e">>, <<"b", "a", "t">>, <<"v", "b", "s">>, <<"p", "s", "1">>, <<"c", "m", "d">>}

\* Group 2 tried at position i with group 1 already bound to q (<<>> or one
\* quote): the position where group 2 ends, 0 when the attempt fails.
\* [^"']+ is greedy, so the longest candidate is the one the engine returns.
MatchGroup2(s, i, q) ==
    LET Ends == {e \in (i + 7)..Len(s) :
                    /\ \A j \in (i + 3)..e : s[j] \notin Quotes
                    /\ s[e - 3] = "."
                    /\ SubSeq(s, e - 2, e) \in Extensions
                    /\ q = <<>> \/ (e + 1 <= Len(s) /\ s[e + 1] = q[1])}
    IN  IF i + 2 <= Len(s) /\ IsAlpha(s[i]) /\ s[i + 1] = ":" /\ s[i + 2] = Sep
           /\ Ends # {}
        THEN CHOOSE e \in Ends : \A f \in Ends : f <= e
        ELSE 0

\* The pattern tried with the match starting at position k: group 1 takes
\* the quote at k when there is one (and with no quote there, group 2 starts
\* at k itself).  <<start of group 2, end of group 2>>, <<0, 0>> on failure.
MatchAt(s, k) ==
    LET quoted == IF s[k] \in Quotes THEN MatchGroup2(s, k + 1, <<s[k]>>) ELSE 0
        bare   == MatchGroup2(s, k, <<>>)
    IN  IF quoted # 0 THEN <<k + 1, quoted>>
        ELSE IF bare # 0 THEN <<k, bare>>
        ELSE <<0, 0>>

\* re.search: the leftmost position where the pattern matches
re_search(s) ==
    LET Starts == {k \in 1..Len(s) : MatchAt(s, k)[1] # 0}
    IN  IF Starts = {} THEN [matched |-> FALSE, group2 |-> <<>>]
        ELSE LET k == CHOOSE k \in Starts : \A j \in Starts : k <= j
                 m == MatchAt(s, k)
             IN  [matched |-> TRUE, group2 |-> SubSeq(s, m[1], m[2])]

\* ExtractPath taking the whole match (group 0) for group 2
ExtractPath_group0(value) ==
    LET match == re_search(value)
        from  == CHOOSE k \in 1..Len(value) : MatchAt(value, k)[1] # 0
        m     == MatchAt(value, from)
    IN  IF match.matched
        THEN SubSeq(value, from, IF m[1] > from THEN m[2] + 1 ELSE m[2])
        ELSE value

\* the path main extracts from an entry's value
ExtractPath(value) ==
    LET match == re_search(value)
    IN  IF match.matched THEN match.group2 ELSE value

\* the body of main's loop over all_items: the issues of one entry
StartupIssues(item) ==
    LET exe_path == ExtractPath(item.value)
        keywords == has_malicious_keyword_startup(item.value)
    IN  (IF is_high_risk_path_startup(exe_path)
         THEN <<Finding("high_risk_path", exe_path, <<>>, 0)>> ELSE <<>>)
        \o (IF ~is_trusted_path(exe_path) /\ is_high_risk_path_startup(exe_path)
            THEN <<Finding("untrusted_path", exe_path, <<>>, 0)>> ELSE <<>>)
        \o (IF keywords # <<>>
            THEN <<Finding("keyword", <<>>, keywords, 0)>> ELSE <<>>)
        \o (IF is_suspicious_name_startup(item.name)
            THEN <<Finding("impersonates_startup_name", item.name, <<>>, 0)>>
            ELSE <<>>)


\* os.path.basename of the Windows path module: what follows the last
\* separator of the part after the drive
Basename(p) ==
    LET rest == SplitDrive(p)[2]
        Seps == {i \in 1..Len(rest) : rest[i] \in {Sep, AltSep}}
        last == IF Seps = {} THEN 0 ELSE CHOOSE i \in Seps : \A j \in Seps : j <= i
    IN  SubSeq(rest, last + 1, Len(rest))

(***************************************************************************)
(* Bounds of the model and the records the enumerators may return          *)
(***************************************************************************)
MaxUsers == 2
MaxProcs == 4
MaxStartup == 1

\* the sequences over S of length at most n
SeqsUpTo(S, n) == UNION {[1..k -> S] : k \in 0..n}

\* account names `net user` may list
UserNames ==
    { <<"A", "d", "m", "i", "n", "i", "s", "t", "r", "a", "t", "o", "r">>, <<"G", "u", "e", "s", "t">>, <<"a", "d", "m", "i", "n", "i", "s", "t", "r", "a", "t", "o", "r">>, <<"s", "v", "c", "$">> }

\* psutil entries: name and executable path (<<>>: the path is missing); the
\* pid of an entry is its position in the listing
ProcInfos ==
    { [name |-> <<"p", "y", "t", "h", "o", "n", ".", "e", "x", "e">>,  exe |-> <<"C", ":", "\\", "P", "y", "\\", "p", "y", "t", "h", "o", "n", ".", "e", "x", "e">>],
      [name |-> <<"n", "o", "t", "e", "p", "a", "d", ".", "e", "x", "e">>, exe |-> <<"C", ":", "\\", "W", "i", "n", "d", "o", "w", "s", "\\", "S", "y", "s", "t", "e", "m", "3", "2", "\\", "n", "o", "t", "e", "p", "a", "d", ".", "e", "x", "e">>],
      [name |-> <<"s", "v", "c", "h", "o", "s", "t", ".", "e", "x", "e">>, exe |-> <<>>],
      [name |-> <<"s", "v", "c", "h", "0", "s", "t", ".", "e", "x", "e">>, exe |-> <<"C", ":", "\\", "T", "e", "m", "p", "\\", "s", "v", "c", "h", "0", "s", "t", ".", "e", "x", "e">>] }

\* values of the registry run keys: name and command
RegistryValues ==
    { [name |-> <<"s", "v", "c", "h", "0", "s", "t", "_", "1">>, value |-> <<"\"", "C", ":", "\\", "U", "s", "e", "r", "s", "\\", "b", "o", "b", "\\", "A", "p", "p", "D", "a", "t", "a", "\\", "L", "o", "c", "a", "l", "\\", "T", "e", "m", "p", "\\", "u", "p", "d", "a", "t", "e", ".", "e", "x", "e", "\"", " ", "-", "s", "i", "l", "e", "n", "t">>],
      [name |-> <<"s", "v", "c", "h", "o", "s", "t">>,   value |-> <<"C", ":", "\\", "W", "i", "n", "d", "o", "w", "s", "\\", "S", "y", "s", "t", "e", "m", "3", "2", "\\", "s", "v", "c", "h", "o", "s", "t", ".", "e", "x", "e", " ", "-", "k", " ", "r", "u", "n">>],
      [name |-> <<"s", "v", "c", "h", "o", "s", "t", "_", "1">>, value |-> <<"r", "u", "n", "d", "l", "l", "3", "2", " ", "s", "h", "e", "l", "l", "3", "2", ".", "d", "l", "l">>] }

\* the four run-key paths of query_registry_run_keys, in its order
Run == "Software\\Microsoft\\Windows\\CurrentVersion\\Run"
RunOnce == "Software\\Microsoft\\Windows\\CurrentVersion\\RunOnce"
reg_paths ==
    << <<"HKEY_CURRENT_USER", Run>>, <<"HKEY_LOCAL_MACHINE", Run>>,
       <<"HKEY_CURRENT_USER", RunOnce>>, <<"HKEY_LOCAL_MACHINE", RunOnce>> >>

\* the two startup folders of get_startup_folder_items, in its order
user_startup == <<"C", ":", "\\", "U", "s", "e", "r", "s", "\\", "b", "o", "b", "\\", "A", "p", "p", "D", "a", "t", "a", "\\", "R", "o", "a", "m", "i", "n", "g", "\\", "M", "i", "c", "r", "o", "s", "o", "f", "t", "\\", "W", "i", "n", "d", "o", "w", "s", "\\", "S", "t", "a", "r", "t", " ", "M", "e", "n", "u", "\\", "P", "r", "o", "g", "r", "a", "m", "s", "\\", "S", "t", "a", "r", "t", "u", "p">>
common_startup == <<"C", ":", "\\", "P", "r", "o", "g", "r", "a", "m", "D", "a", "t", "a", "\\", "M", "i", "c", "r", "o", "s", "o", "f", "t", "\\", "W", "i", "n", "d", "o", "w", "s", "\\", "S", "t", "a", "r", "t", " ", "M", "e", "n", "u", "\\", "P", "r", "o", "g", "r", "a", "m", "s", "\\", "S", "t", "a", "r", "t", "u", "p">>
folders == << [location |-> "User Startup", folder_path |-> user_startup],
              [location |-> "Common Startup", folder_path |-> common_startup] >>

\* names of files a startup folder may hold that one of the glob patterns matches
FolderFileNames == { <<"E", "x", "p", "l", "o", "r", "e", "r", "2", ".", "l", "n", "k">> }

(***************************************************************************)
(* State                                                                   *)
(***************************************************************************)
VARIABLES
    scan,        \* which script runs: "users", "procs" or "startup"
    pc,          \* the position in main
    exit_code,   \* -1 while running, then the process exit code
    out,         \* the lines printed so far
    calls,       \* the operating-system queries made so far, with their results
    items,       \* users / all_processes / all_items
    i,           \* index of the loop main is in
    name_count,  \* the process scan's name -> count map
    found,       \* found_suspicious / suspicious_found
    reg_i,       \* query_registry_run_keys: index into reg_paths; then index into folders
    key_open,    \* query_registry_run_keys: the key of reg_paths[reg_i] is open
    evals        \* per evaluated record: the path rules were applied to, its issues

vars == <<scan, pc, exit_code, out, calls, items, i, name_count, found, reg_i,
          key_open, evals>>

Scans == {"users", "procs", "startup"}

\* one printed line (or block): what it is, the record or count it is about,
\* the issues it lists, the registry subkey it names
Line(what, n, issues) == [line |-> what, n |-> n, issues |-> issues, subkey |-> ""]

Init ==
    /\ scan \in Scans
    /\ pc = "start"
    /\ exit_code = -1
    /\ out = <<>>
    /\ calls = <<>>
    /\ items = <<>>
    /\ i = 0
    /\ name_count = [n \in {} |-> 0]
    /\ found = FALSE
    /\ reg_i = 0
    /\ key_open = FALSE
    /\ evals = <<>>

\* one query of the operating system: the call, what it was made on (a
\* registry key, a folder), what it gave
Call(op, arg, result) == [op |-> op, arg |-> arg, result |-> result]

\* the queries made so far
Ops == {calls[k].op : k \in 1..Len(calls)}

\* what main keeps of one evaluated record
Eval(path, issues) == [path |-> path, issues |-> issues]

\* Exit with the code dropped, as sys.exit() would
Exit_no_code(code) == pc' = "done" /\ exit_code' = 0

\* sys.exit(code), or the end of main (code 0)
Exit(code) == pc' = "done" /\ exit_code' = code

\* Report without the test of `issues`
Report_always(lines, n, issues) == Append(lines, Line("block", n, issues))

\* the block main prints for a record whose issues are not empty
Report(lines, n, issues) ==
    IF issues # <<>> THEN Append(lines, Line("block", n, issues)) ELSE lines

\* Summary with the test of the flag inverted
Summary_inverted(lines, flagged, advice) ==
    (IF flagged THEN Append(lines, Line("no_suspicious", 0, <<>>))
     ELSE IF advice THEN Append(lines, Line("advice", 0, <<>>))
     ELSE lines)
    \o <<Line("complete", 0, <<>>)>>

\* the closing lines of main: the summary when nothing was flagged (the
\* process and startup scans print advice otherwise), then the end banner
Summary(lines, flagged, advice) ==
    (IF ~flagged THEN Append(lines, Line("no_suspicious", 0, <<>>))
     ELSE IF advice THEN Append(lines, Line("advice", 0, <<>>))
     ELSE lines)
    \o <<Line("complete", 0, <<>>)>>

(***************************************************************************)
(* check_backdoor_users.py: main                                           *)
(***************************************************************************)
\* What `net session` gives is_admin: output (truthy), no output (falsy
\* bytes), a non-zero exit status (CalledProcessError, caught), or an error
\* starting the command (not caught).
IsAdminResults == {"output", "empty", "CalledProcessError", "OSError"}

\* banner, then the privilege check (lines 82-89)
U_IsAdmin ==
    /\ scan = "users" /\ pc = "start"
    /\ \E r \in IsAdminResults :
        /\ calls' = Append(calls, Call("net session", <<>>, r))
        /\ CASE r = "output" ->
                  /\ out' = Append(out, Line("banner", 0, <<>>))
                  /\ pc' = "get_users"
                  /\ exit_code' = exit_code
             [] r \in {"empty", "CalledProcessError"} ->
                  /\ out' = out \o <<Line("banner", 0, <<>>), Line("need_admin", 0, <<>>)>>
                  /\ Exit(1)
             [] r = "OSError" ->
                  /\ out' = out \o <<Line("banner", 0, <<>>), Line("traceback", 0, <<>>)>>
                  /\ Exit(1)
    /\ UNCHANGED <<scan, items, i, name_count, found, reg_i, key_open, evals>>

\* users = get_users(), the empty-list exit and the listing (lines 91-104)
U_GetUsers ==
    /\ scan = "users" /\ pc = "get_users"
    /\ \E raised \in BOOLEAN, listed \in SeqsUpTo(UserNames, MaxUsers) :
        LET users == IF raised THEN <<>> ELSE listed
            warn  == IF raised THEN <<Line("get_users_failed", 0, <<>>)>> ELSE <<>>
        IN  /\ raised => listed = <<>>
            /\ calls' = Append(calls, Call("net user", <<>>, IF raised THEN "raises" ELSE "ok"))
            /\ items' = users
            /\ IF users = <<>>
               THEN /\ out' = out \o warn \o <<Line("no_user_list", 0, <<>>)>>
                    /\ Exit(1)
                    /\ UNCHANGED <<i, found>>
               ELSE /\ out' = out \o warn \o <<Line("count", Len(users), <<>>)>>
                    /\ pc' = "eval"
                    /\ i' = 1
                    /\ found' = FALSE
                    /\ exit_code' = exit_code
    /\ UNCHANGED <<scan, name_count, reg_i, key_open, evals>>

\* one iteration of the loop over users (lines 105-111)
U_Eval ==
    /\ scan = "users" /\ pc = "eval" /\ i <= Len(items)
    /\ \E r \in NetUserResults :
        LET issues == check_suspicious_user(items[i], r)
        IN  /\ evals' = Append(evals, Eval(<<>>, issues))
            /\ found' = (found \/ issues # <<>>)
            /\ out' = Report(out, i, issues)
            /\ calls' = Append(calls, Call("net user <name>", <<>>, r))
    /\ i' = i + 1
    /\ UNCHANGED <<scan, pc, exit_code, items, name_count, reg_i, key_open>>

\* after the loop (lines 113-118)
U_Summary ==
    /\ scan = "users" /\ pc = "eval" /\ i > Len(items)
    /\ out' = Summary(out, found, FALSE)
    /\ Exit(0)
    /\ UNCHANGED <<scan, calls, items, i, name_count, found, reg_i, key_open, evals>>

(***************************************************************************)
(* check_suspicious_processes.py: main                                     *)
(***************************************************************************)
\* all_processes = get_running_processes() and the count line (lines 102-110)
P_Enumerate ==
    /\ scan = "procs" /\ pc = "start"
    /\ \E infos \in SeqsUpTo(ProcInfos, MaxProcs) :
        /\ items' = [k \in 1..Len(infos) |-> ProcRecord(infos[k], k)]
        /\ out' = out \o <<Line("banner", 0, <<>>), Line("count", Len(infos), <<>>)>>
    /\ calls' = Append(calls, Call("psutil.process_iter", <<>>, "ok"))
    /\ pc' = "count"
    /\ i' = 1
    /\ UNCHANGED <<scan, exit_code, name_count, found, reg_i, key_open, evals>>

\* name_count.get(name, 0) + 1
Counted(counts, name) ==
    [n \in DOMAIN counts \cup {name} |->
        IF n = name THEN (IF name \in DOMAIN counts THEN counts[name] ELSE 0) + 1
        ELSE counts[n]]

\* one iteration of the counting loop (lines 111-112)
P_Count ==
    /\ scan = "procs" /\ pc = "count" /\ i <= Len(items)
    /\ name_count' = Counted(name_count, items[i].name)
    /\ i' = i + 1
    /\ UNCHANGED <<scan, pc, exit_code, out, calls, items, found, reg_i, key_open, evals>>

\* between the two loops (lines 114-118)
P_BeginEval ==
    /\ scan = "procs" /\ pc = "count" /\ i > Len(items)
    /\ found' = FALSE
    /\ out' = Append(out, Line("checking", 0, <<>>))
    /\ pc' = "eval"
    /\ i' = 1
    /\ UNCHANGED <<scan, exit_code, calls, items, name_count, reg_i, key_open, evals>>

\* one iteration of the loop over all_processes (lines 120-152)
P_Eval ==
    /\ scan = "procs" /\ pc = "eval" /\ i <= Len(items)
    /\ LET issues == ProcIssues(items[i], name_count)
       IN  /\ evals' = Append(evals, Eval(items[i].exe, issues))
           /\ found' = (found \/ issues # <<>>)
           /\ out' = Report(out, i, issues)
    /\ i' = i + 1
    /\ UNCHANGED <<scan, pc, exit_code, calls, items, name_count, reg_i, key_open>>

\* after the loop (lines 154-161)
P_Summary ==
    /\ scan = "procs" /\ pc = "eval" /\ i > Len(items)
    /\ out' = Summary(out, found, TRUE)
    /\ Exit(0)
    /\ UNCHANGED <<scan, calls, items, i, name_count, found, reg_i, key_open, evals>>

(***************************************************************************)
(* check_suspicious_startup.py: main                                       *)
(***************************************************************************)
\* What winreg.OpenKey can do: succeed, raise PermissionError, or raise
\* another OSError (the key does not exist, ...).
OpenKeyResults == {"ok", "PermissionError", "OSError"}

\* the key main opens to test for privilege
Probe == <<"HKEY_LOCAL_MACHINE", "Software">>

\* banner, then the privilege check (lines 131-146); only PermissionError
\* is caught there
S_CheckPrivilege ==
    /\ scan = "startup" /\ pc = "start"
    /\ \E r \in OpenKeyResults :
        /\ calls' = Append(calls, Call("OpenKey", Probe, r))
        /\ CASE r = "ok" ->
                  /\ out' = out \o <<Line("banner", 0, <<>>), Line("scanning_registry", 0, <<>>)>>
                  /\ pc' = "registry"
                  /\ reg_i' = 1
                  /\ exit_code' = exit_code
             [] r = "PermissionError" ->
                  /\ out' = out \o <<Line("banner", 0, <<>>), Line("need_admin", 0, <<>>)>>
                  /\ Exit(1)
                  /\ reg_i' = reg_i
             [] r = "OSError" ->
                  /\ out' = out \o <<Line("banner", 0, <<>>), Line("traceback", 0, <<>>)>>
                  /\ Exit(1)
                  /\ reg_i' = reg_i
    /\ UNCHANGED <<scan, items, i, name_count, found, key_open, evals>>

\* RegistryWarning of a loop that skips a failed key silently
RegistryWarning_silent(lines, r, subkey) == lines

\* query_registry_run_keys: what the two except clauses around OpenKey
\* print (lines 95-98)
RegistryWarning(lines, r, subkey) ==
    CASE r = "ok" -> lines
      [] r = "PermissionError" ->
           Append(lines, [Line("registry_no_permission", 0, <<>>) EXCEPT !.subkey = subkey])
      [] r = "OSError" ->
           Append(lines, [Line("registry_failed", 0, <<>>) EXCEPT !.subkey = subkey])

\* query_registry_run_keys: OpenKey on the next path (lines 79-81, 95-98)
S_OpenKey ==
    /\ scan = "startup" /\ pc = "registry" /\ reg_i <= Len(reg_paths) /\ ~key_open
    /\ \E r \in OpenKeyResults :
        /\ calls' = Append(calls, Call("OpenKey", reg_paths[reg_i], r))
        /\ out' = RegistryWarning(out, r, reg_paths[reg_i][2])
        /\ key_open' = (r = "ok")
        /\ reg_i' = IF r = "ok" THEN reg_i ELSE reg_i + 1
    /\ UNCHANGED <<scan, pc, exit_code, items, i, name_count, found, evals>>

\* query_registry_run_keys: EnumValue returns the next value (lines 85-92)
S_EnumValue ==
    /\ scan = "startup" /\ pc = "registry" /\ key_open
    /\ Len(items) < MaxStartup
    /\ \E v \in RegistryValues :
        items' = Append(items, [type |-> "Registry", name |-> v.name,
                                value |-> v.value, path |-> reg_paths[reg_i][2]])
    /\ calls' = Append(calls, Call("EnumValue", reg_paths[reg_i], "value"))
    /\ UNCHANGED <<scan, pc, exit_code, out, i, name_count, found, reg_i,
                   key_open, evals>>

\* query_registry_run_keys: EnumValue raises OSError, the key is left (lines 93-94)
S_EnumEnd ==
    /\ scan = "startup" /\ pc = "registry" /\ key_open
    /\ key_open' = FALSE
    /\ reg_i' = reg_i + 1
    /\ calls' = Append(calls, Call("EnumValue", reg_paths[reg_i], "OSError"))
    /\ UNCHANGED <<scan, pc, exit_code, out, items, i, name_count, found, evals>>

\* back in main after query_registry_run_keys (lines 148-152)
S_RegistryDone ==
    /\ scan = "startup" /\ pc = "registry" /\ reg_i > Len(reg_paths)
    /\ out' = out \o <<Line("count", Len(items), <<>>), Line("scanning_folders", 0, <<>>)>>
    /\ pc' = "folders"
    /\ reg_i' = 1
    /\ UNCHANGED <<scan, exit_code, calls, items, i, name_count, found, key_open, evals>>

\* get_startup_folder_items: one folder (lines 113-126); a folder that does
\* not exist is skipped
S_Folder ==
    /\ scan = "startup" /\ pc = "folders" /\ reg_i <= Len(folders)
    /\ \E exists \in BOOLEAN, names \in SeqsUpTo(FolderFileNames, MaxStartup - Len(items)) :
        LET f == folders[reg_i]
            File(k) == f.folder_path \o <<Sep>> \o names[k]
        IN  /\ ~exists => names = <<>>
            /\ items' = items \o
                   [k \in 1..Len(names) |->
                       [type |-> "Startup Folder", name |-> Basename(File(k)),
                        value |-> File(k), path |-> f.location]]
            /\ calls' = Append(calls, Call("os.path.exists", <<f.location>>, "returned"))
    /\ reg_i' = reg_i + 1
    /\ UNCHANGED <<scan, pc, exit_code, out, i, name_count, found, key_open, evals>>

\* back in main after get_startup_folder_items (lines 154-161)
S_FoldersDone ==
    /\ scan = "startup" /\ pc = "folders" /\ reg_i > Len(folders)
    /\ LET folder_items == SelectSeq(items, LAMBDA it : it.type = "Startup Folder")
       IN  out' = out \o <<Line("count", Len(folder_items), <<>>), Line("checking", 0, <<>>)>>
    /\ found' = FALSE
    /\ pc' = "eval"
    /\ i' = 1
    /\ UNCHANGED <<scan, exit_code, calls, items, name_count, reg_i, key_open, evals>>

\* one iteration of the loop over all_items (lines 163-199)
S_Eval ==
    /\ scan = "startup" /\ pc = "eval" /\ i <= Len(items)
    /\ LET issues == StartupIssues(items[i])
       IN  /\ evals' = Append(evals, Eval(ExtractPath(items[i].value), issues))
           /\ found' = (found \/ issues # <<>>)
           /\ out' = Report(out, i, issues)
    /\ i' = i + 1
    /\ UNCHANGED <<scan, pc, exit_code, calls, items, name_count, reg_i, key_open>>

\* after the loop (lines 201-208)
S_Summary ==
    /\ scan = "startup" /\ pc = "eval" /\ i > Len(items)
    /\ out' = Summary(out, found, TRUE)
    /\ Exit(0)
    /\ UNCHANGED <<scan, calls, items, i, name_count, found, reg_i, key_open, evals>>

Next ==
    \/ U_IsAdmin \/ U_GetUsers \/ U_Eval \/ U_Summary
    \/ P_Enumerate \/ P_Count \/ P_BeginEval \/ P_Eval \/ P_Summary
    \/ S_CheckPrivilege \/ S_OpenKey \/ S_EnumValue \/ S_EnumEnd \/ S_RegistryDone
    \/ S_Folder \/ S_FoldersDone \/ S_Eval \/ S_Summary

Spec == Init /\ [][Next]_vars


(***************************************************************************)
(* Properties                                                              *)
(***************************************************************************)
HasLine(what) == \E k \in 1..Len(out) : out[k].line = what

IsBlock(l) == l.line = "block"

\* the findings blocks printed so far, in order
Blocks == SelectSeq(out, IsBlock)

\* enumeration has returned: get_users / get_running_processes / both of
\* query_registry_run_keys and get_startup_folder_items
EnumerationDone ==
    CASE scan = "users"   -> "net user" \in Ops
      [] scan = "procs"   -> "psutil.process_iter" \in Ops
      [] scan = "startup" -> pc \in {"eval", "done"} /\ "os.path.exists" \in Ops

\* the indexes of the evaluated records
Evaluated == 1..Len(evals)

\* the rules that fired among these issues
Kinds(issues) == {issues[k].kind : k \in 1..Len(issues)}

\* ---- C1 -----------------------------------------------------------------
\* C1 as stated: in each of the three scans, when enumeration returns zero
\* records the run prints the "no suspicious items found" line, prints no
\* findings block and ends normally (exit code 0).
C1_ZeroRecordsAllScans ==
    (pc = "done" /\ EnumerationDone /\ items = <<>>)
        => (HasLine("no_suspicious") /\ Blocks = <<>> /\ exit_code = 0)

\* C1 as amended: that holds of the process scan and of the startup scan;
\* the account scan given zero users prints that it could not get the user
\* list and exits with code 1, without the summary line and without a block.
C1_ZeroRecords ==
    (pc = "done" /\ EnumerationDone /\ items = <<>>)
        => IF scan = "users"
           THEN /\ exit_code = 1
                /\ HasLine("no_user_list")
                /\ ~HasLine("no_suspicious")
                /\ Blocks = <<>>
           ELSE /\ exit_code = 0
                /\ HasLine("no_suspicious")
                /\ Blocks = <<>>
                /\ ~HasLine("traceback")

C1_Witness ==
    /\ pc = "done" /\ scan = "startup" /\ EnumerationDone /\ items = <<>>
    /\ HasLine("no_suspicious")

\* ---- C2 -----------------------------------------------------------------
Fires(k, kind) == kind \in Kinds(evals[k].issues)

\* C2 as stated: the startup name-impersonation rule fires for the entry
\* name svch0st_1 and does not fire for the entry name svchost.
C2_Svch0stFires ==
    scan = "startup" =>
        \A k \in Evaluated :
            /\ items[k].name = <<"s", "v", "c", "h", "0", "s", "t", "_", "1">> => Fires(k, "impersonates_startup_name")
            /\ items[k].name = <<"s", "v", "c", "h", "o", "s", "t">> => ~Fires(k, "impersonates_startup_name")

\* C2 as amended: the rule fires neither for svch0st_1 (which contains no
\* stem: the o is a zero) nor for svchost; it fires for svchost_1.
C2_NameExamples ==
    scan = "startup" =>
        \A k \in Evaluated :
            /\ items[k].name = <<"s", "v", "c", "h", "0", "s", "t", "_", "1">> => ~Fires(k, "impersonates_startup_name")
            /\ items[k].name = <<"s", "v", "c", "h", "o", "s", "t">> => ~Fires(k, "impersonates_startup_name")
            /\ items[k].name = <<"s", "v", "c", "h", "o", "s", "t", "_", "1">> => Fires(k, "impersonates_startup_name")

C2_Witness ==
    /\ scan = "startup" /\ pc = "done" /\ Len(evals) = 1
    /\ items[1].name = <<"s", "v", "c", "h", "0", "s", "t", "_", "1">>
    /\ ~Fires(1, "impersonates_startup_name")

\* ---- C3 -----------------------------------------------------------------
\* the number of records of the snapshot that share this name
Sharing(name) == Cardinality({j \in 1..Len(items) : items[j].name = name})

C3_Rule ==
    scan = "procs" =>
        /\ \A k \in Evaluated :
            /\ Fires(k, "duplicates")
                 <=> /\ Sharing(items[k].name) > 3
                     /\ \/ is_high_risk_path_proc(items[k].exe)
                        \/ Contains(<<"p", "y", "t", "h", "o", "n">>, Lower(items[k].name))
            /\ (items[k].name = <<"p", "y", "t", "h", "o", "n", ".", "e", "x", "e">> /\ Sharing(<<"p", "y", "t", "h", "o", "n", ".", "e", "x", "e">>) > 3)
                 => Fires(k, "duplicates")
            /\ (items[k].name = <<"n", "o", "t", "e", "p", "a", "d", ".", "e", "x", "e">> /\ is_system_process(items[k].exe))
                 => ~Fires(k, "duplicates")
        /\ pc \in {"eval", "done"} =>
            /\ DOMAIN name_count = {items[j].name : j \in 1..Len(items)}
            /\ \A n \in DOMAIN name_count : name_count[n] = Sharing(n)
        /\ pc = "count" => evals = <<>>

\* C3: in the process scan the duplicate-count finding is attached to a
\* record exactly when more than 3 records of the snapshot share its name and
\* (its path is high-risk or its name contains "python"); more than 3
\* python.exe records from a path neither high-risk nor trusted are each
\* flagged, notepad.exe records from a system path never; the name-count map
\* is complete before the first record is evaluated and evaluation does not
\* change it.
C3_DuplicateCount ==
    /\ []C3_Rule
    /\ [][pc = "eval" => name_count' = name_count]_vars

C3_Witness ==
    /\ scan = "procs" /\ pc = "done" /\ Len(items) = 4
    /\ \A k \in 1..4 :
        /\ items[k].name = <<"p", "y", "t", "h", "o", "n", ".", "e", "x", "e">>
        /\ ~is_high_risk_path_proc(items[k].exe)
        /\ ~is_system_process(items[k].exe)
        /\ Fires(k, "duplicates")

\* ---- C4 -----------------------------------------------------------------
QuotedCommand == <<"\"", "C", ":", "\\", "U", "s", "e", "r", "s", "\\", "b", "o", "b", "\\", "A", "p", "p", "D", "a", "t", "a", "\\", "L", "o", "c", "a", "l", "\\", "T", "e", "m", "p", "\\", "u", "p", "d", "a", "t", "e", ".", "e", "x", "e", "\"", " ", "-", "s", "i", "l", "e", "n", "t">>
QuotedCommandPath == <<"C", ":", "\\", "U", "s", "e", "r", "s", "\\", "b", "o", "b", "\\", "A", "p", "p", "D", "a", "t", "a", "\\", "L", "o", "c", "a", "l", "\\", "T", "e", "m", "p", "\\", "u", "p", "d", "a", "t", "e", ".", "e", "x", "e">>

\* the finding of this kind among the issues of record k carries this path
FiresWith(k, kind, path) ==
    \E f \in Range(evals[k].issues) : f.kind = kind /\ f.text = path

\* somewhere in s a drive letter, ":\", at least one character and one of
\* the five extensions follow one another with no quote in between
HasDrivePath(s) ==
    \E b \in 1..(Len(s) - 7) :
        /\ IsAlpha(s[b]) /\ s[b + 1] = ":" /\ s[b + 2] = Sep
        /\ \E e \in (b + 7)..Len(s) :
            /\ s[e - 3] = "." /\ SubSeq(s, e - 2, e) \in Extensions
            /\ \A j \in (b + 3)..e : s[j] \notin Quotes

\* C4: for the command "C:\Users\bob\AppData\Local\Temp\update.exe" -silent
\* the extracted path is C:\Users\bob\AppData\Local\Temp\update.exe, without
\* quotes or arguments, and the entry gets the high-risk-path finding and the
\* untrusted-path finding; a command in which no drive-letter path with one
\* of the five extensions is found is used whole as the path.
C4_PathExtraction ==
    scan = "startup" =>
        \A k \in Evaluated :
            /\ items[k].value = QuotedCommand =>
                /\ evals[k].path = QuotedCommandPath
                /\ FiresWith(k, "high_risk_path", QuotedCommandPath)
                /\ FiresWith(k, "untrusted_path", QuotedCommandPath)
            /\ ~HasDrivePath(items[k].value) => evals[k].path = items[k].value

C4_Witness ==
    /\ scan = "startup" /\ pc = "done" /\ Len(evals) = 1
    /\ items[1].value = QuotedCommand
    /\ evals[1].path = QuotedCommandPath
    /\ {"high_risk_path", "untrusted_path"} \subseteq Kinds(evals[1].issues)

\* ---- C5 -----------------------------------------------------------------
\* the privilege check has been made and did not succeed
PrivilegeCheckFailed ==
    /\ scan \in {"users", "startup"}
    /\ calls # <<>>
    /\ calls[1].result \notin {"output", "ok"}

\* C5: in the account scan and in the startup scan, a failed privilege check
\* ends the process with a non-zero exit code, and nothing but that check has
\* happened: no listing of users, no read of a run key or startup folder, no
\* rule evaluation.
C5_PrivilegeExit ==
    PrivilegeCheckFailed =>
        /\ pc = "done" /\ exit_code # 0 /\ exit_code # -1
        /\ Len(calls) = 1
        /\ calls[1].op \in {"net session", "OpenKey"}
        /\ calls[1].op = "OpenKey" => calls[1].arg = Probe
        /\ items = <<>> /\ evals = <<>>
        /\ Blocks = <<>>

C5_Witness ==
    /\ scan = "startup" /\ PrivilegeCheckFailed
    /\ calls[1].result = "PermissionError"
    /\ exit_code = 1 /\ HasLine("need_admin")

\* ---- C6 -----------------------------------------------------------------
BuiltinAdminSet == { <<"A", "d", "m", "i", "n", "i", "s", "t", "r", "a", "t", "o", "r">>, <<"G", "u", "e", "s", "t">>, <<"D", "e", "f", "a", "u", "l", "t", "A", "c", "c", "o", "u", "n", "t">>, <<"W", "D", "A", "G", "U", "t", "i", "l", "i", "t", "y", "A", "c", "c", "o", "u", "n", "t">> }

\* what the membership query of the k-th evaluated account returned
Membership(k) ==
    LET queries == SelectSeq(calls, LAMBDA c : c.op = "net user <name>")
    IN  queries[k].result \in {"Administrators", "localized"}

\* C6: for an account of the builtin-admin set check_suspicious_user never
\* returns the custom-administrator finding, whatever the membership query
\* says; for any other account it returns it exactly when the account is a
\* member of the administrators group.
C6_BuiltinAdmin ==
    scan = "users" =>
        \A k \in Evaluated :
            IF items[k] \in BuiltinAdminSet
            THEN ~Fires(k, "custom_admin")
            ELSE Fires(k, "custom_admin") <=> Membership(k)

C6_Witness ==
    /\ scan = "users" /\ Len(evals) >= 1
    /\ items[1] = <<"A", "d", "m", "i", "n", "i", "s", "t", "r", "a", "t", "o", "r">>
    /\ Membership(1)
    /\ ~Fires(1, "custom_admin")

\* ---- C7 -----------------------------------------------------------------
\* the keywords of the keyword finding of record k that its name does not hold
PathKeywords(k) ==
    {kw \in UNION {Range(f.kws) : f \in Range(evals[k].issues)} :
        ~Contains(kw, Lower(items[k].name))}

\* C7: in the process scan, for a record whose executable path is missing,
\* no path-based rule fires: not the high-risk-path finding, not the "system
\* process name outside system path" finding (whatever the name), and no
\* keyword is matched in the path.
C7_MissingPath ==
    scan = "procs" =>
        \A k \in Evaluated :
            items[k].exe = Unknown =>
                /\ ~Fires(k, "high_risk_path")
                /\ ~Fires(k, "system_name_outside_system_path")
                /\ PathKeywords(k) = {}

\* ---- C8 -----------------------------------------------------------------
Stems == { <<"s", "v", "c", "h", "o", "s", "t">>, <<"e", "x", "p", "l", "o", "r", "e", "r">>, <<"w", "i", "n", "l", "o", "g", "o", "n">>, <<"l", "s", "a", "s", "s">>, <<"c", "s", "r", "s", "s">>, <<"s", "m", "s", "s">> }
Digits == {"0", "1", "2", "3", "4", "5", "6", "7", "8", "9"}

HasStem(name) == \E stem \in Stems : Contains(stem, Lower(name))

HasOneOf(name, chars) == \E j \in 1..Len(name) : name[j] \in chars

\* C8 as stated: the name-impersonation finding fires exactly when the
\* lowercased name contains one of the stems and contains a digit (any of
\* 0-9) or an underscore.
C8_AnyDigit ==
    scan = "startup" =>
        \A k \in Evaluated :
            Fires(k, "impersonates_startup_name")
                <=> (HasStem(items[k].name) /\ HasOneOf(items[k].name, Digits \cup {"_"}))

\* C8 as amended: ... and contains the character 0, the character 1 or an
\* underscore; no other digit counts.
C8_ZeroOneUnderscore ==
    scan = "startup" =>
        \A k \in Evaluated :
            Fires(k, "impersonates_startup_name")
                <=> (HasStem(items[k].name) /\ HasOneOf(items[k].name, {"0", "1", "_"}))

C8_Witness ==
    /\ scan = "startup" /\ pc = "done" /\ Len(evals) = 1
    /\ items[1].name = <<"E", "x", "p", "l", "o", "r", "e", "r", "2", ".", "l", "n", "k">>
    /\ ~Fires(1, "impersonates_startup_name")

\* ---- C9 -----------------------------------------------------------------
\* the positions in `calls` of the OpenKey calls on run keys that failed
FailedOpens ==
    {j \in 1..Len(calls) :
        calls[j].op = "OpenKey" /\ calls[j].arg # Probe /\ calls[j].result # "ok"}

IsWarning(l) == l.line \in {"registry_no_permission", "registry_failed"}

\* C9: in the startup scan, when opening a run-key path fails (permission or
\* any other error) a warning naming its subkey is printed, no value is read
\* from it and it contributes no record, the process does not abort, and the
\* other run-key paths and the startup folders are still read and their
\* records evaluated.
C9_RegistryFailure ==
    (scan = "startup" /\ FailedOpens # {}) =>
        /\ \A j \in FailedOpens :
            /\ \E l \in Range(out) :
                 /\ l.subkey = calls[j].arg[2]
                 /\ l.line = IF calls[j].result = "PermissionError"
                             THEN "registry_no_permission" ELSE "registry_failed"
            /\ j < Len(calls) => calls[j + 1].op # "EnumValue"
        /\ Len(SelectSeq(out, IsWarning)) = Cardinality(FailedOpens)
        /\ Len(SelectSeq(items, LAMBDA it : it.type = "Registry"))
             = Cardinality({j \in 1..Len(calls) :
                               calls[j].op = "EnumValue" /\ calls[j].result = "value"})
        /\ exit_code \in {-1, 0}
        /\ ~HasLine("traceback")
        /\ pc = "done" =>
            /\ \A k \in 1..Len(reg_paths) :
                 \E c \in Range(calls) : c.op = "OpenKey" /\ c.arg = reg_paths[k]
            /\ \A f \in Range(folders) :
                 \E c \in Range(calls) : c.op = "os.path.exists" /\ c.arg = <<f.location>>
            /\ Len(evals) = Len(items)
            /\ HasLine("complete")

C9_Witness ==
    /\ scan = "startup" /\ pc = "done" /\ exit_code = 0
    /\ Cardinality(FailedOpens) = 2
    /\ calls[2].result = "PermissionError" /\ calls[3].result = "OSError"
    /\ HasLine("registry_no_permission") /\ HasLine("registry_failed")
    /\ Len(items) = 1 /\ items[1].type = "Registry"
    /\ Len(evals) = 1 /\ evals[1].issues # <<>>

\* ---- C10 ----------------------------------------------------------------
\* the blocks owed to the records evaluated so far: one per record with
\* issues, in order, listing its issues
RECURSIVE BlocksOwed(_)
BlocksOwed(k) ==
    IF k = 0 THEN <<>>
    ELSE BlocksOwed(k - 1) \o
         (IF evals[k].issues # <<>>
          THEN <<Line("block", k, evals[k].issues)>> ELSE <<>>)

\* C10: in a scan that reaches the evaluation loop, a findings block is
\* printed for a record exactly when its list of findings is not empty (one
\* block per flagged record, in enumeration order, listing its findings),
\* and the "no suspicious items found" line is printed exactly when no
\* record of the run had a finding.
C10_Report ==
    pc \in {"eval", "done"} =>
        /\ Blocks = BlocksOwed(Len(evals))
        /\ (pc = "done" /\ exit_code = 0) =>
            /\ Len(evals) = Len(items)
            /\ HasLine("no_suspicious") <=> \A k \in Evaluated : evals[k].issues = <<>>
        /\ pc = "eval" => ~HasLine("no_suspicious")

C10_Witness ==
    /\ pc = "done" /\ scan = "procs" /\ Len(items) = 2
    /\ evals[1].issues = <<>> /\ evals[2].issues # <<>>
    /\ Len(Blocks) = 1 /\ Blocks[1].n = 2
    /\ ~HasLine("no_suspicious")


=============================================================================
